---- MODULE Spec2Model ----
(***************************************************************************)
(* jmhcmp: compares two JMH benchmark reports.  The model follows          *)
(* src/main.rs: Mode parsing and rendering, parse_row, parse_block,        *)
(* parse_file, calculate_delta, compare_benchmark_results and run.         *)
(* Text is modelled as sequences of one-character strings, so that         *)
(* tokenisation, case folding and number parsing are computed, not assumed.*)
(***************************************************************************)
EXTENDS Integers, Sequences, FiniteSets, TLC

VARIABLES
    pc,             \* position of the modelled call: "start", "done", or a label of run
    s,              \* Mode::from_str: the token given
    mode_result,    \* Mode::from_str: its Result
    mode_text,      \* Mode::fmt: the text written for the parsed Mode
    input,          \* parse_row: the line given
    row_result,     \* parse_row: its Result
    file,           \* parse_file / parse_block: the file (readable flag, contents)
    block_result,   \* parse_block(contents): (results, errors)
    file_result,    \* parse_file(path): Result of (results, errors)
    old_results,    \* compare_benchmark_results / run: Vec<BenchResult>
    new_results,    \* compare_benchmark_results / run: Vec<BenchResult>
    result,         \* compare_benchmark_results / run: Vec<BenchDiff>
    fs,             \* run: the two files, fs.old and fs.new
    errors,         \* run: [old |-> old_errors, new |-> new_errors]
    stdout,         \* run: what was printed, in order
    stderr,         \* run: diagnostics, in order
    exit_code       \* run: "running", or the process exit status

vars == <<pc, s, mode_result, mode_text, input, row_result, file, block_result,
          file_result, old_results, new_results, result, fs, errors, stdout,
          stderr, exit_code>>

\* a variable that holds no value yet
None == [tag |-> "None"]

\* Result<T, E>
Ok(v) == [tag |-> "Ok", val |-> v]
Err(e) == [tag |-> "Err", err |-> e]
IsOk(r) == r.tag = "Ok"
IsErr(r) == r.tag = "Err"

-----------------------------------------------------------------------------
(* Characters and strings *)

UpperLetters == <<"A","B","C","D","E","F","G","H","I","J","K","L","M",
                  "N","O","P","Q","R","S","T","U","V","W","X","Y","Z">>
LowerLetters == <<"a","b","c","d","e","f","g","h","i","j","k","l","m",
                  "n","o","p","q","r","s","t","u","v","w","x","y","z">>

\* char::to_lowercase on the ASCII range
char_to_lowercase(c) ==
    IF \E i \in 1..Len(UpperLetters) : UpperLetters[i] = c
    THEN LowerLetters[CHOOSE i \in 1..Len(UpperLetters) : UpperLetters[i] = c]
    ELSE c

char_to_uppercase(c) ==
    IF \E i \in 1..Len(LowerLetters) : LowerLetters[i] = c
    THEN UpperLetters[CHOOSE i \in 1..Len(LowerLetters) : LowerLetters[i] = c]
    ELSE c

\* str::to_lowercase
to_lowercase(str) == [i \in 1..Len(str) |-> char_to_lowercase(str[i])]

-----------------------------------------------------------------------------
(* Mode *)

Modes == {"AverageTime", "SampleTime", "SingleShotTime", "Throughput"}

T_thrpt == <<"t","h","r","p","t">>
T_avgt == <<"a","v","g","t">>
T_sample == <<"s","a","m","p","l","e">>
T_ss == <<"s","s">>

Mode_from_str_swapped(str) ==
    LET l == to_lowercase(str) IN
    IF l = T_thrpt THEN Ok("Throughput")
    ELSE IF l = T_avgt THEN Ok("SampleTime")
    ELSE IF l = T_sample THEN Ok("AverageTime")
    ELSE IF l = T_ss THEN Ok("SingleShotTime")
    ELSE Err("InvalidMode")

\* impl FromStr for Mode
Mode_from_str(str) ==
    LET l == to_lowercase(str) IN
    IF l = T_thrpt THEN Ok("Throughput")
    ELSE IF l = T_avgt THEN Ok("AverageTime")
    ELSE IF l = T_sample THEN Ok("SampleTime")
    ELSE IF l = T_ss THEN Ok("SingleShotTime")
    ELSE Err("InvalidMode")

\* impl Display for Mode
Mode_fmt(m) ==
    CASE m = "SampleTime" -> T_sample
      [] m = "Throughput" -> T_thrpt
      [] m = "SingleShotTime" -> T_ss
      [] m = "AverageTime" -> T_avgt

-----------------------------------------------------------------------------
(* Numbers: str::parse::<i64>() and str::parse::<f64>() *)

Digits == <<"0","1","2","3","4","5","6","7","8","9">>
IsDigit(c) == \E i \in 1..Len(Digits) : Digits[i] = c
DigitVal(c) == (CHOOSE i \in 1..Len(Digits) : Digits[i] = c) - 1

\* the decimal digits of i64::MAX and of the magnitude of i64::MIN
I64MaxDigits == <<"9","2","2","3","3","7","2","0","3","6","8","5","4","7","7","5","8","0","7">>
I64MinDigits == <<"9","2","2","3","3","7","2","0","3","6","8","5","4","7","7","5","8","0","8">>

RECURSIVE StripZeros(_)
StripZeros(ds) ==
    IF Len(ds) > 1 /\ ds[1] = "0" THEN StripZeros(Tail(ds)) ELSE ds

\* a <= b for digit strings without leading zeros
DigitsLE(a, b) ==
    \/ Len(a) < Len(b)
    \/ /\ Len(a) = Len(b)
       /\ \/ a = b
          \/ \E i \in 1..Len(a) :
                /\ \A j \in 1..(i - 1) : a[j] = b[j]
                /\ DigitVal(a[i]) < DigitVal(b[i])

HasSign(tok) == tok # <<>> /\ tok[1] \in {"+", "-"}
Unsigned(tok) == IF HasSign(tok) THEN Tail(tok) ELSE tok

\* i64::from_str: an optional sign, then one or more digits, checked for
\* overflow.  The value is kept as sign and digits without leading zeros.
parse_i64(tok) ==
    LET neg == tok # <<>> /\ tok[1] = "-"
        body == Unsigned(tok)
    IN  IF body = <<>> \/ \E i \in 1..Len(body) : ~IsDigit(body[i])
        THEN Err("ParseIntError")
        ELSE LET mag == StripZeros(body) IN
             IF ~DigitsLE(mag, IF neg THEN I64MinDigits ELSE I64MaxDigits)
             THEN Err("ParseIntError")
             ELSE Ok([neg |-> neg /\ mag # <<"0">>, digits |-> mag])

\* f64 values: NaN, the infinities, and finite values as reduced fractions
\* (exact for the short decimal tokens of the model)
RECURSIVE Gcd(_, _)
Gcd(a, b) == IF b = 0 THEN a ELSE Gcd(b, a % b)
Abs(x) == IF x < 0 THEN -x ELSE x

NaN == [kind |-> "nan"]
Inf(neg) == [kind |-> "inf", neg |-> neg]
Fin(num, den) ==
    LET sg == IF den < 0 THEN -1 ELSE 1
        g == Gcd(Abs(num), Abs(den))
    IN  [kind |-> "fin", num |-> (sg * num) \div g, den |-> (sg * den) \div g]

RECURSIVE Pow10(_)
Pow10(n) == IF n <= 0 THEN 1 ELSE 10 * Pow10(n - 1)

RECURSIVE DigitsToInt(_)
DigitsToInt(ds) ==
    IF ds = <<>> THEN 0
    ELSE 10 * DigitsToInt(SubSeq(ds, 1, Len(ds) - 1)) + DigitVal(ds[Len(ds)])

\* number of consecutive digits of str from index i
RECURSIVE CountDigits(_, _)
CountDigits(str, i) ==
    IF i <= Len(str) /\ IsDigit(str[i]) THEN 1 + CountDigits(str, i + 1) ELSE 0

T_nan == <<"n","a","n">>
T_inf == <<"i","n","f">>
T_infinity == <<"i","n","f","i","n","i","t","y">>

\* sig * 10^exp10 as an f64 value
Scale(sig, exp10) ==
    IF exp10 >= 0 THEN Fin(sig * Pow10(exp10), 1) ELSE Fin(sig, Pow10(-exp10))

\* the exponent digits from index q to the end of body
dec_exp_digits(body, sig, nf, eneg, q) ==
    IF CountDigits(body, q) = 0 \/ q + CountDigits(body, q) # Len(body) + 1
    THEN Err("ParseFloatError")
    ELSE Ok(Scale(sig, (IF eneg THEN -1 ELSE 1) * DigitsToInt(SubSeq(body, q, Len(body)))
                       - nf))

\* after a mantissa of nd digits, nf of them after the point, ending before index p
dec_exp(body, sig, nd, nf, p) ==
    IF nd = 0 THEN Err("ParseFloatError")
    ELSE IF p > Len(body) THEN Ok(Scale(sig, -nf))
    ELSE IF body[p] \notin {"e", "E"} THEN Err("ParseFloatError")
    ELSE IF p + 1 <= Len(body) /\ body[p + 1] \in {"+", "-"}
         THEN dec_exp_digits(body, sig, nf, body[p + 1] = "-", p + 2)
         ELSE dec_exp_digits(body, sig, nf, FALSE, p + 1)

\* after an integer part of ni digits and a point, with nf digits after it
dec_frac(body, sg, ni, nf) ==
    dec_exp(body,
            sg * DigitsToInt(SubSeq(body, 1, ni) \o SubSeq(body, ni + 2, ni + 1 + nf)),
            ni + nf, nf, ni + 2 + nf)

\* after an integer part of ni digits
dec_int(body, sg, ni) ==
    IF ni + 1 <= Len(body) /\ body[ni + 1] = "."
    THEN dec_frac(body, sg, ni, CountDigits(body, ni + 2))
    ELSE dec_exp(body, sg * DigitsToInt(SubSeq(body, 1, ni)), ni, 0, ni + 1)

\* f64::from_str: [sign] digits [. digits] [(e|E) [sign] digits] with at
\* least one mantissa digit, or [sign] inf | infinity | nan in any case
parse_f64(tok) ==
    IF Unsigned(tok) = <<>> THEN Err("ParseFloatError")
    ELSE IF to_lowercase(Unsigned(tok)) = T_nan THEN Ok(NaN)
    ELSE IF to_lowercase(Unsigned(tok)) \in {T_inf, T_infinity} THEN Ok(Inf(tok[1] = "-"))
    ELSE dec_int(Unsigned(tok), IF tok[1] = "-" THEN -1 ELSE 1,
                 CountDigits(Unsigned(tok), 1))

-----------------------------------------------------------------------------
(* parse_row *)

IsWhitespace(c) == c \in {" ", "\t", "\n", "\r"}

\* the least element of a non-empty set of integers
Min(S) == CHOOSE i \in S : \A j \in S : i <= j

\* str::split_whitespace from index `from`: the maximal runs of
\* non-whitespace characters, one token at a time
RECURSIVE SplitWs(_, _)
SplitWs(str, from) ==
    LET starts == {i \in from..Len(str) : ~IsWhitespace(str[i])}
    IN  IF starts = {} THEN <<>>
        ELSE LET ends == {i \in Min(starts)..Len(str) : IsWhitespace(str[i])}
                          \cup {Len(str) + 1}
             IN  <<SubSeq(str, Min(starts), Min(ends) - 1)>> \o SplitWs(str, Min(ends))

split_whitespace(str) == SplitWs(str, 1)

BenchResult(name, mode, count, score, error, units) ==
    [name |-> name, mode |-> mode, count |-> count, score |-> score,
     error |-> error, units |-> units]

\* parse_row, with `parts` the fused token iterator and pos the number of
\* tokens it has yielded: next() yields parts[pos + 1], nth(1) parts[pos + 2].
\* Each step checks the field parsed before it (the `?`) and reads the next.
row_units(parts, pos, mode, count, score, error) ==
    IF IsErr(error) THEN Err("InvalidFloat")
    ELSE IF Len(parts) < pos + 1 THEN Err("MissingCount")
    ELSE Ok(BenchResult(parts[1], mode.val, count.val, score.val, error.val,
                        parts[pos + 1]))

\* the error read by next() in place of nth(1)
row_error_noskip(parts, pos, mode, count, score) ==
    IF IsErr(score) THEN Err("InvalidFloat")
    ELSE IF Len(parts) < pos + 1 THEN Err("MissingCount")
    ELSE row_units(parts, pos + 1, mode, count, score, parse_f64(parts[pos + 1]))

row_error(parts, pos, mode, count, score) ==
    IF IsErr(score) THEN Err("InvalidFloat")
    ELSE IF Len(parts) < pos + 2 THEN Err("MissingCount")
    ELSE row_units(parts, pos + 2, mode, count, score, parse_f64(parts[pos + 2]))

row_score(parts, pos, mode, count) ==
    IF IsErr(count) THEN Err("InvalidInt")
    ELSE IF Len(parts) < pos + 1 THEN Err("MissingCount")
    ELSE row_error(parts, pos + 1, mode, count, parse_f64(parts[pos + 1]))

row_count(parts, pos, mode) ==
    IF IsErr(mode) THEN Err(mode.err)
    ELSE IF Len(parts) < pos + 1 THEN Err("MissingCount")
    ELSE row_score(parts, pos + 1, mode, parse_i64(parts[pos + 1]))

\* the tokens counted before the mode is parsed
row_mode_count_first(parts, pos) ==
    IF Len(parts) < pos + 1 THEN Err("InvalidMode")
    ELSE IF Len(parts) < pos + 6 THEN Err("MissingCount")
    ELSE row_count(parts, pos + 1, Mode_from_str(parts[pos + 1]))

row_mode(parts, pos) ==
    IF Len(parts) < pos + 1 THEN Err("InvalidMode")
    ELSE row_count(parts, pos + 1, Mode_from_str(parts[pos + 1]))

row_name(parts) ==
    IF Len(parts) < 1 THEN Err("MissingName") ELSE row_mode(parts, 1)

\* (x \in {e} binds x to the value of e, computed once)
parse_row(line) ==
    CHOOSE r \in {row_name(parts) : parts \in {split_whitespace(line)}} : TRUE

-----------------------------------------------------------------------------
(* parse_block and parse_file *)

NL == "\n"

\* str::split on a one-character pattern from index `from`: the pieces
\* between the matches, a trailing empty piece included
RECURSIVE SplitChar(_, _, _)
SplitChar(str, c, from) ==
    LET hits == {i \in from..Len(str) : str[i] = c}
    IN  IF hits = {} THEN <<SubSeq(str, from, Len(str))>>
        ELSE <<SubSeq(str, from, Min(hits) - 1)>> \o SplitChar(str, c, Min(hits) + 1)

\* str::split_terminator("\n"): as split, without a trailing empty piece
split_terminator(str) ==
    LET pieces == SplitChar(str, NL, 1)
    IN  IF pieces[Len(pieces)] = <<>> THEN SubSeq(pieces, 1, Len(pieces) - 1)
        ELSE pieces

\* str::split("\n\n") from index `from`: each match is the leftmost one in
\* what is left, and the search goes on after it (matches do not overlap)
RECURSIVE SplitBlank(_, _)
SplitBlank(str, from) ==
    LET hits == {i \in from..(Len(str) - 1) : str[i] = NL /\ str[i + 1] = NL}
    IN  IF hits = {} THEN <<SubSeq(str, from, Len(str))>>
        ELSE <<SubSeq(str, from, Min(hits) - 1)>> \o SplitBlank(str, Min(hits) + 2)

split_blank(str) == SplitBlank(str, 1)

\* the Ok values and the Err values of a sequence of Results, each in order
RECURSIVE OkVals(_)
OkVals(rs) ==
    IF rs = <<>> THEN <<>>
    ELSE (IF IsOk(rs[1]) THEN <<rs[1].val>> ELSE <<>>) \o OkVals(Tail(rs))

RECURSIVE ErrVals(_)
ErrVals(rs) ==
    IF rs = <<>> THEN <<>>
    ELSE (IF IsErr(rs[1]) THEN <<rs[1].err>> ELSE <<>>) \o ErrVals(Tail(rs))

\* parse_block without the filter on the line index
DataLines_all(str) == split_terminator(str)

\* the lines parse_block hands to parse_row: those of index > 0
DataLines(str) ==
    LET lines == split_terminator(str)
    IN  IF lines = <<>> THEN <<>> ELSE Tail(lines)

RECURSIVE MapParseRow(_)
MapParseRow(lines) ==
    IF lines = <<>> THEN <<>> ELSE <<parse_row(lines[1])>> \o MapParseRow(Tail(lines))

\* the Results up to the first Err
RECURSIVE UntilErr(_)
UntilErr(rs) ==
    IF rs = <<>> \/ IsErr(rs[1]) THEN <<>> ELSE <<rs[1]>> \o UntilErr(Tail(rs))

\* parse_block giving up at the first row that fails
parse_block_abort(str) ==
    CHOOSE r \in {[results |-> OkVals(UntilErr(rows)),
                    errors |-> SubSeq(ErrVals(rows), 1,
                                      IF ErrVals(rows) = <<>> THEN 0 ELSE 1)] :
                    rows \in {MapParseRow(lines) : lines \in {DataLines(str)}}} : TRUE

parse_block(str) ==
    CHOOSE r \in {[results |-> OkVals(rows), errors |-> ErrVals(rows)] :
                    rows \in {MapParseRow(lines) : lines \in {DataLines(str)}}} : TRUE

\* a file: whether read_to_string succeeds, and what it then returns
File(readable, contents) == [readable |-> readable, contents |-> contents]
Unreadable == File(FALSE, <<>>)

\* parse_file refusing a file without contents
parse_file_nonempty(f) ==
    IF ~f.readable \/ f.contents = <<>> THEN Err("io")
    ELSE CHOOSE r \in {Ok(parse_block(blocks[Len(blocks)])) :
                         blocks \in {split_blank(f.contents)}} : TRUE

parse_file(f) ==
    IF ~f.readable THEN Err("io")
    ELSE CHOOSE r \in {Ok(parse_block(blocks[Len(blocks)])) :
                         blocks \in {split_blank(f.contents)}} : TRUE

-----------------------------------------------------------------------------
(* calculate_delta and compare_benchmark_results *)

\* f64 subtraction and division (zero is unsigned in the model)
FSub(a, b) ==
    IF a.kind = "nan" \/ b.kind = "nan" THEN NaN
    ELSE IF a.kind = "inf" /\ b.kind = "inf"
         THEN (IF a.neg = b.neg THEN NaN ELSE a)
    ELSE IF a.kind = "inf" THEN a
    ELSE IF b.kind = "inf" THEN Inf(~b.neg)
    ELSE Fin(a.num * b.den - b.num * a.den, a.den * b.den)

FDiv(a, b) ==
    IF a.kind = "nan" \/ b.kind = "nan" THEN NaN
    ELSE IF a.kind = "inf" /\ b.kind = "inf" THEN NaN
    ELSE IF a.kind = "inf" THEN Inf(a.neg # (b.num < 0))
    ELSE IF b.kind = "inf" THEN Fin(0, 1)
    ELSE IF b.num = 0 THEN (IF a.num = 0 THEN NaN ELSE Inf(a.num < 0))
    ELSE Fin(a.num * b.den, a.den * b.num)

calculate_delta(new_bench_result, old_bench_result) ==
    [name |-> new_bench_result.name,
     mode |-> new_bench_result.mode,
     new_score |-> new_bench_result.score,
     old_score |-> old_bench_result.score,
     diff |-> FDiv(FSub(new_bench_result.score, old_bench_result.score),
                   old_bench_result.score),
     units |-> new_bench_result.units]

\* find keeping the last record the closure accepts
RECURSIVE find_last(_, _)
find_last(news, o) ==
    IF news = <<>> THEN None
    ELSE IF news[Len(news)].name = o.name /\ news[Len(news)].units = o.units
         THEN [tag |-> "Some", val |-> news[Len(news)]]
         ELSE find_last(SubSeq(news, 1, Len(news) - 1), o)

\* Iterator::find over new_results: Some(n) for the first n the closure accepts
RECURSIVE find(_, _)
find(news, o) ==
    IF news = <<>> THEN None
    ELSE IF news[1].name = o.name /\ news[1].units = o.units
         THEN [tag |-> "Some", val |-> news[1]]
         ELSE find(Tail(news), o)

\* new_results without its first record of the key of o
RECURSIVE RemoveFirst(_, _)
RemoveFirst(news, o) ==
    IF news = <<>> THEN <<>>
    ELSE IF news[1].name = o.name /\ news[1].units = o.units THEN Tail(news)
    ELSE <<news[1]>> \o RemoveFirst(Tail(news), o)

\* a one-to-one join: a record of new_results is matched at most once
RECURSIVE compare_one_to_one(_, _)
compare_one_to_one(olds, news) ==
    IF olds = <<>> THEN <<>>
    ELSE LET m == find(news, olds[1])
         IN  (IF m.tag = "Some" THEN <<calculate_delta(m.val, olds[1])>> ELSE <<>>)
             \o compare_one_to_one(Tail(olds), RemoveFirst(news, olds[1]))

RECURSIVE compare_benchmark_results(_, _)
compare_benchmark_results(olds, news) ==
    IF olds = <<>> THEN <<>>
    ELSE LET m == find(news, olds[1])
         IN  (IF m.tag = "Some" THEN <<calculate_delta(m.val, olds[1])>> ELSE <<>>)
             \o compare_benchmark_results(Tail(olds), news)

-----------------------------------------------------------------------------
(* run *)

Notice == [kind |-> "notice"]
TableOut(rows) == [kind |-> "table", rows |-> rows]
Diagnostic(which) == [kind |-> "problem", file |-> which]

-----------------------------------------------------------------------------
(* Inputs *)

MaxModeLen == 3     \* length of the arbitrary tokens given to Mode::from_str
MaxSubst == 2       \* tokens of a well-formed row replaced at once
MaxTokens == 8      \* tokens on a line given to parse_row
MaxPieces == 5      \* rows and newlines in the contents of a file
MaxOld == 3         \* length of old_results given to compare_benchmark_results
MaxNew == 2         \* length of new_results given to compare_benchmark_results

RECURSIVE SeqsOfLen(_, _)
SeqsOfLen(S, n) ==
    IF n = 0 THEN {<<>>} ELSE {Append(q, x) : q \in SeqsOfLen(S, n - 1), x \in S}

SeqsUpTo(S, n) == UNION {SeqsOfLen(S, k) : k \in 0..n}

RECURSIVE Concat(_)
Concat(ss) == IF ss = <<>> THEN <<>> ELSE ss[1] \o Concat(Tail(ss))

\* the tokens, each followed by sep, after lead
RECURSIVE Join(_, _)
Join(toks, sep) ==
    IF toks = <<>> THEN <<>>
    ELSE IF Len(toks) = 1 THEN toks[1]
    ELSE toks[1] \o sep \o Join(Tail(toks), sep)

\* every way of writing the lowercase word w in upper and lower case
RECURSIVE CaseVariants(_)
CaseVariants(w) ==
    IF w = <<>> THEN {<<>>}
    ELSE {<<c>> \o r : c \in {w[1], char_to_uppercase(w[1])}, r \in CaseVariants(Tail(w))}

CanonicalTokens == {T_avgt, T_sample, T_ss, T_thrpt}

ModeInputs(maxLen) ==
    UNION {CaseVariants(w) : w \in CanonicalTokens}
    \cup SeqsUpTo({"s", "S", "x"}, maxLen)
    \cup {SubSeq(w, 1, Len(w) - 1) : w \in CanonicalTokens}
    \cup {w \o <<"x">> : w \in CanonicalTokens}
    \cup {<<" ">> \o w : w \in CanonicalTokens}

\* a well-formed row: name mode count score (skipped) error units
BaseRow == << <<"b","1">>, T_thrpt, <<"5">>, <<"2">>, <<"+","-">>, <<"0",".","5">>,
              <<"o","p","s">> >>
Extra == <<"x">>

\* names, mode tokens, integers, floats and near misses of each
Vocabulary ==
    { <<"b","1">>, <<"S","s">>, <<"-","0","3">>, <<"+",".","5","E","-","1">>,
      <<"i","n","f">>, <<"1","e">> }

RowTokens(maxSubst, maxTokens) ==
    LET full == {[i \in 1..Len(BaseRow) |-> IF i \in DOMAIN f THEN f[i] ELSE BaseRow[i]] :
                    f \in UNION {[P -> Vocabulary] :
                                   P \in {Q \in SUBSET (1..Len(BaseRow)) :
                                            Cardinality(Q) <= maxSubst}}}
    IN  {IF n <= Len(BaseRow) THEN SubSeq(r, 1, n)
         ELSE r \o [i \in 1..(n - Len(BaseRow)) |-> Extra] :
            r \in full, n \in 0..maxTokens}

RowInputs(rows) ==
    {Join(r, <<" ">>) : r \in rows}
    \cup {<<"\t">> \o Join(r, <<" ", " ">>) \o <<" ">> : r \in rows}

RowA == Join(<< <<"a">>, T_ss, <<"5">>, <<"2">>, <<"x">>, <<"1">>, <<"u">> >>, <<" ">>)
RowB == Join(<< <<"b">>, T_avgt, <<"7">>, <<"4">>, <<"x">>, <<"1">>, <<"u">> >>, <<" ">>)
RowA3 == Join(<< <<"a">>, T_thrpt, <<"5">>, <<"3">>, <<"x">>, <<"1">>, <<"u">> >>, <<" ">>)
RowBad == <<"a", " ", "z">>
Header == <<"H">>

FileInputs(maxPieces) ==
    {Unreadable}
    \cup {File(TRUE, Concat(ps)) : ps \in SeqsUpTo({RowA, RowB, RowBad, <<NL>>}, maxPieces)}

F(tok) == parse_f64(tok).val

\* BenchResults over three (name, units) keys, two of them per shared name or units
Records ==
    { BenchResult(<<"a">>, "Throughput", None, F(<<"0">>), F(<<"1">>), <<"u">>),
      BenchResult(<<"a">>, "AverageTime", None, F(<<"2">>), F(<<"1">>), <<"u">>),
      BenchResult(<<"a">>, "SampleTime", None, F(<<"3">>), F(<<"1">>), <<"u">>),
      BenchResult(<<"a">>, "SingleShotTime", None, F(<<"1">>), F(<<"1">>), <<"v">>),
      BenchResult(<<"b">>, "Throughput", None, F(<<"1",".","5">>), F(<<"1">>), <<"u">>) }

RunFiles ==
    { Unreadable,
      File(TRUE, <<>>),
      File(TRUE, Header \o <<NL>> \o RowA \o <<NL>> \o RowB \o <<NL>>),
      File(TRUE, Header \o <<NL>> \o RowBad \o <<NL>> \o RowA3),
      File(TRUE, RowA \o <<NL, NL>> \o Header \o <<NL>> \o RowB),
      File(TRUE, Header \o <<NL>> \o RowB \o <<NL>> \o RowA3 \o <<NL>> \o RowA) }

-----------------------------------------------------------------------------
(* Specifications *)

modeVars == <<s, mode_result, mode_text>>
rowVars == <<input, row_result>>
parseVars == <<file, block_result, file_result>>
cmpVars == <<old_results, new_results, result>>
runVars == <<fs, errors, stdout, stderr, exit_code>>

ModeIdle == s = None /\ mode_result = None /\ mode_text = None
RowIdle == input = None /\ row_result = None
ParseIdle == file = None /\ block_result = None /\ file_result = None
CmpIdle == old_results = None /\ new_results = None /\ result = None
RunIdle == fs = None /\ errors = None /\ stdout = None /\ stderr = None
           /\ exit_code = None

\* Mode: a token is parsed, and the Mode it gives is rendered
InitMode ==
    /\ pc = "start"
    /\ s \in ModeInputs(MaxModeLen)
    /\ mode_result = None /\ mode_text = None
    /\ RowIdle /\ ParseIdle /\ CmpIdle /\ RunIdle

FromStr ==
    /\ pc = "start"
    /\ mode_result' = Mode_from_str(s)
    /\ pc' = "parsed"
    /\ UNCHANGED <<s, mode_text, rowVars, parseVars, cmpVars, runVars>>

Fmt ==
    /\ pc = "parsed"
    /\ IsOk(mode_result)
    /\ mode_text' = Mode_fmt(mode_result.val)
    /\ pc' = "done"
    /\ UNCHANGED <<s, mode_result, rowVars, parseVars, cmpVars, runVars>>

NextMode == FromStr \/ Fmt
SpecMode == InitMode /\ [][NextMode]_vars

\* parse_row on one line
InitRow ==
    /\ pc = "start"
    /\ input \in RowInputs(RowTokens(MaxSubst, MaxTokens))
    /\ row_result = None
    /\ ModeIdle /\ ParseIdle /\ CmpIdle /\ RunIdle

ParseRow ==
    /\ pc = "start"
    /\ row_result' = parse_row(input)
    /\ pc' = "done"
    /\ UNCHANGED <<input, modeVars, parseVars, cmpVars, runVars>>

NextRow == ParseRow
SpecRow == InitRow /\ [][NextRow]_vars

\* parse_block on the contents of a file, and parse_file on the file
InitParse ==
    /\ pc = "start"
    /\ file \in FileInputs(MaxPieces)
    /\ block_result = None /\ file_result = None
    /\ ModeIdle /\ RowIdle /\ CmpIdle /\ RunIdle

ParseBlock ==
    /\ block_result = None
    /\ block_result' = Ok(parse_block(file.contents))
    /\ UNCHANGED <<pc, file, file_result, modeVars, rowVars, cmpVars, runVars>>

ParseFile ==
    /\ file_result = None
    /\ file_result' = parse_file(file)
    /\ UNCHANGED <<pc, file, block_result, modeVars, rowVars, cmpVars, runVars>>

NextParse == ParseBlock \/ ParseFile
SpecParse == InitParse /\ [][NextParse]_vars

\* compare_benchmark_results on two vectors of BenchResult
InitCompare ==
    /\ pc = "start"
    /\ old_results \in SeqsUpTo(Records, MaxOld)
    /\ new_results \in SeqsUpTo(Records, MaxNew)
    /\ result = None
    /\ ModeIdle /\ RowIdle /\ ParseIdle /\ RunIdle

Compare ==
    /\ pc = "start"
    /\ result' = Ok(compare_benchmark_results(old_results, new_results))
    /\ pc' = "done"
    /\ UNCHANGED <<old_results, new_results, modeVars, rowVars, parseVars, runVars>>

NextCompare == Compare
SpecCompare == InitCompare /\ [][NextCompare]_vars

\* run(config), with config.old_file and config.new_file naming fs.old and fs.new
InitRun ==
    /\ pc = "parse_new"
    /\ fs \in [old : RunFiles, new : RunFiles]
    /\ errors = [old |-> <<>>, new |-> <<>>]
    /\ old_results = <<>> /\ new_results = <<>> /\ result = <<>>
    /\ stdout = <<>> /\ stderr = <<>>
    /\ exit_code = None
    /\ ModeIdle /\ RowIdle /\ ParseIdle

Exit(which) ==
    /\ stderr' = Append(stderr, Diagnostic(which))
    /\ exit_code' = Ok(1)
    /\ pc' = "exited"

RunParseNew ==
    /\ pc = "parse_new"
    /\ \E r \in {parse_file(fs.new)} :
          \/ /\ IsErr(r)
             /\ Exit("new")
             /\ UNCHANGED <<new_results, errors>>
          \/ /\ IsOk(r)
             /\ new_results' = r.val.results
             /\ errors' = [errors EXCEPT !.new = r.val.errors]
             /\ pc' = "parse_old"
             /\ UNCHANGED <<stderr, exit_code>>
    /\ UNCHANGED <<old_results, result, fs, stdout, modeVars, rowVars, parseVars>>

\* the old file read as empty when it cannot be read
RunParseOld_absorb ==
    /\ pc = "parse_old"
    /\ \E r \in {parse_file(File(TRUE, fs.old.contents))} :
          /\ old_results' = r.val.results
          /\ errors' = [errors EXCEPT !.old = r.val.errors]
          /\ pc' = "notice"
          /\ UNCHANGED <<stderr, exit_code>>
    /\ UNCHANGED <<new_results, result, fs, stdout, modeVars, rowVars, parseVars>>

RunParseOld ==
    /\ pc = "parse_old"
    /\ \E r \in {parse_file(fs.old)} :
          \/ /\ IsErr(r)
             /\ Exit("old")
             /\ UNCHANGED <<old_results, errors>>
          \/ /\ IsOk(r)
             /\ old_results' = r.val.results
             /\ errors' = [errors EXCEPT !.old = r.val.errors]
             /\ pc' = "notice"
             /\ UNCHANGED <<stderr, exit_code>>
    /\ UNCHANGED <<new_results, result, fs, stdout, modeVars, rowVars, parseVars>>

RunNotice ==
    /\ pc = "notice"
    /\ stdout' = IF Len(errors.old) > 0 \/ Len(errors.new) > 0
                 THEN Append(stdout, Notice) ELSE stdout
    /\ pc' = "compare"
    /\ UNCHANGED <<cmpVars, fs, errors, stderr, exit_code, modeVars, rowVars, parseVars>>

RunCompare ==
    /\ pc = "compare"
    /\ result' = compare_benchmark_results(old_results, new_results)
    /\ pc' = "print"
    /\ UNCHANGED <<old_results, new_results, runVars, modeVars, rowVars, parseVars>>

RunPrint ==
    /\ pc = "print"
    /\ stdout' = Append(stdout, TableOut(result))
    /\ exit_code' = Ok(0)
    /\ pc' = "done"
    /\ UNCHANGED <<cmpVars, fs, errors, stderr, modeVars, rowVars, parseVars>>

NextRun == RunParseNew \/ RunParseOld \/ RunNotice \/ RunCompare \/ RunPrint
SpecRun == InitRun /\ [][NextRun]_vars

-----------------------------------------------------------------------------
(* Properties *)

\* the k-th smallest element of a set of integers
Kth(S, k) == CHOOSE i \in S : Cardinality({j \in S : j < i}) = k - 1

\* the Mode of each canonical token (spec, section 3)
ModeOfToken(w) ==
    CASE w = T_avgt -> "AverageTime"
      [] w = T_sample -> "SampleTime"
      [] w = T_ss -> "SingleShotTime"
      [] w = T_thrpt -> "Throughput"

\* C8: a token that is a canonical mode token in any letter case parses to
\* the Mode of that token (a different Mode for each of the four) and that
\* Mode renders as the lowercase form of the token; every other token parses
\* to the InvalidMode error.
C8_ModeRoundTrip ==
    /\ pc \in {"parsed", "done"} =>
          IF to_lowercase(s) \in CanonicalTokens
          THEN mode_result = Ok(ModeOfToken(to_lowercase(s)))
          ELSE mode_result = Err("InvalidMode")
    /\ pc = "parsed" /\ IsOk(mode_result) => ENABLED Fmt
    /\ pc = "done" => mode_text = to_lowercase(s) /\ mode_text \in CanonicalTokens

C8_Witness ==
    /\ pc = "done"
    /\ s = <<"S","a","M","p","L","e">>
    /\ mode_result = Ok("SampleTime")
    /\ mode_text = T_sample

\* the tokens of the line given to parse_row
Tokens == split_whitespace(input)

IsModeToken(tok) == to_lowercase(tok) \in CanonicalTokens
IsInteger(tok) == IsOk(parse_i64(tok))
IsFloat(tok) == IsOk(parse_f64(tok))

\* the positions of the six fields among the tokens: the 5th token is skipped
FieldPositions == {1, 2, 3, 4, 6, 7}

FieldBad(toks, k) ==
    \/ Len(toks) < k
    \/ k = 2 /\ ~IsModeToken(toks[k])
    \/ k = 3 /\ ~IsInteger(toks[k])
    \/ k \in {4, 6} /\ ~IsFloat(toks[k])

FieldFailure(toks, k) ==
    IF k = 1 THEN "MissingName"
    ELSE IF k = 2 THEN "InvalidMode"
    ELSE IF Len(toks) < k THEN "MissingCount"
    ELSE IF k = 3 THEN "InvalidInt"
    ELSE "InvalidFloat"

BadFields(toks) == {k \in FieldPositions : FieldBad(toks, k)}

\* C3: when some field of the line is missing or invalid, parse_row returns
\* the one failure of the first such field in left-to-right order, whatever
\* the later fields hold.
C3_FirstFailure ==
    pc = "done" /\ BadFields(Tokens) # {} =>
        row_result = Err(FieldFailure(Tokens, Kth(BadFields(Tokens), 1)))

C3_Witness ==
    /\ pc = "done"
    /\ Len(Tokens) = 6
    /\ BadFields(Tokens) = {3, 4, 7}
    /\ row_result = Err("InvalidInt")

\* C4: a line of at least seven tokens with a mode token 2nd, an integer 3rd
\* and floats 4th and 6th yields a Record built from tokens 1, 2, 3, 4, 6
\* and 7; the 5th token has no part in it.
C4_WellFormedRow ==
    pc = "done" /\ BadFields(Tokens) = {} =>
        /\ IsOk(row_result)
        /\ row_result.val.name = Tokens[1]
        /\ row_result.val.mode = ModeOfToken(to_lowercase(Tokens[2]))
        /\ row_result.val.count = parse_i64(Tokens[3]).val
        /\ row_result.val.score = parse_f64(Tokens[4]).val
        /\ row_result.val.error = parse_f64(Tokens[6]).val
        /\ row_result.val.units = Tokens[7]
        /\ DOMAIN row_result.val = {"name", "mode", "count", "score", "error", "units"}

C4_Witness ==
    /\ pc = "done"
    /\ Len(Tokens) = 8
    /\ ~IsFloat(Tokens[5])
    /\ Tokens[6] # Tokens[4]
    /\ IsOk(row_result)
    /\ row_result.val.error = parse_f64(<<"0", ".", "5">>).val
    /\ row_result.val.score = Inf(FALSE)

\* the lines of the contents given to parse_block, and those after the first
Lines == split_terminator(file.contents)
Rest == IF Lines = <<>> THEN <<>> ELSE Tail(Lines)
OkLines(ls) == {i \in 1..Len(ls) : IsOk(parse_row(ls[i]))}
ErrLines(ls) == {i \in 1..Len(ls) : IsErr(parse_row(ls[i]))}

\* the lines after the first of the block parse_file selects
SelectedLines == split_terminator(split_blank(file.contents)[Len(split_blank(file.contents))])
SelectedRest == IF SelectedLines = <<>> THEN <<>> ELSE Tail(SelectedLines)

\* C6: the first line of the block is never parsed: the Records are as many
\* as the lines after the first that parse and the failures as many as those
\* that do not, also when the first line is a well-formed data line; a first
\* line followed by k valid data lines gives k Records and no failure.
C6_HeaderSkipped ==
    /\ block_result # None =>
          /\ Len(block_result.val.results) = Cardinality(OkLines(Rest))
          /\ Len(block_result.val.errors) = Cardinality(ErrLines(Rest))
          /\ (Lines # <<>> /\ ErrLines(Rest) = {} =>
                  /\ Len(block_result.val.results) = Len(Lines) - 1
                  /\ block_result.val.errors = <<>>)
    /\ file_result # None /\ file.readable =>
          /\ Len(file_result.val.results) = Cardinality(OkLines(SelectedRest))
          /\ Len(file_result.val.errors) = Cardinality(ErrLines(SelectedRest))

C6_Witness ==
    /\ block_result # None
    /\ Len(Lines) = 3
    /\ IsOk(parse_row(Lines[1]))
    /\ ErrLines(Rest) = {}
    /\ Len(block_result.val.results) = 2
    /\ block_result.val.errors = <<>>

\* C9: every line after the first gives exactly one entry: the Records are
\* the Records of the lines that parse, in the order of the lines, and the
\* failures are those of the lines that fail, in the order of the lines.
C9_Partition ==
    block_result # None =>
        LET res == block_result.val.results
            errs == block_result.val.errors
        IN  /\ Len(res) + Len(errs) = Len(Rest)
            /\ Len(res) = Cardinality(OkLines(Rest))
            /\ \A k \in 1..Len(res) : res[k] = parse_row(Rest[Kth(OkLines(Rest), k)]).val
            /\ Len(errs) = Cardinality(ErrLines(Rest))
            /\ \A k \in 1..Len(errs) : errs[k] = parse_row(Rest[Kth(ErrLines(Rest), k)]).err

C9_Witness ==
    /\ block_result # None
    /\ Len(Rest) = 3
    /\ OkLines(Rest) = {1, 3}
    /\ Len(block_result.val.results) = 2
    /\ block_result.val.results[1] # block_result.val.results[2]
    /\ Len(block_result.val.errors) = 1

\* the text after the last blank line (the last two adjacent newlines) of str,
\* str itself when it holds no blank line
AfterFinalBlankLine(str) ==
    LET at == {i \in 1..(Len(str) - 1) : str[i] = NL /\ str[i + 1] = NL}
    IN  IF at = {} THEN str
        ELSE SubSeq(str, Kth(at, Cardinality(at)) + 2, Len(str))

\* C5: what parse_file returns for a readable file is what parse_block gives
\* for the text after the final blank line of its contents: nothing before
\* that blank line has a part in it.
C5_LastBlockOnly ==
    file_result # None /\ file.readable =>
        file_result = Ok(parse_block(AfterFinalBlankLine(file.contents)))

\* contents that hold no line, or one line with or without its newline
AtMostHeader(str) ==
    \A i \in 1..Len(str) : str[i] = NL => i = Len(str) /\ i > 1

\* C10: for empty contents, and for contents that are one header line,
\* parse_file succeeds with no Records and no failures.
C10_EmptyContent ==
    file_result # None /\ file.readable /\ AtMostHeader(file.contents) =>
        file_result = Ok([results |-> <<>>, errors |-> <<>>])

C10_Witness ==
    /\ file_result = Ok([results |-> <<>>, errors |-> <<>>])
    /\ file.readable
    /\ file.contents = <<>>

\* the positions in new_results of the records with the key of o, and the
\* positions in old_results of the records that have such a record
SameKey(a, b) == a.name = b.name /\ a.units = b.units
MatchesOf(o) == {j \in 1..Len(new_results) : SameKey(new_results[j], o)}
Matched == {i \in 1..Len(old_results) : MatchesOf(old_results[i]) # {}}

\* C1: the Diff of an old record o is computed against the first record n of
\* new_results with the name and units of o: it has that name and units, the
\* mode and score of n, the score of o, and diff = (n.score - o.score) / o.score.
C1_FirstMatch ==
    pc = "done" /\ fs = None =>
        /\ Len(result.val) = Cardinality(Matched)
        /\ \A k \in 1..Len(result.val) :
              LET o == old_results[Kth(Matched, k)]
                  n == new_results[Kth(MatchesOf(o), 1)]
                  d == result.val[k]
              IN  /\ d.name = o.name /\ d.units = o.units
                  /\ d.mode = n.mode
                  /\ d.old_score = o.score
                  /\ d.new_score = n.score
                  /\ d.diff = FDiv(FSub(n.score, o.score), o.score)

C1_Witness ==
    /\ pc = "done" /\ fs = None
    /\ Len(old_results) = 1
    /\ Cardinality(MatchesOf(old_results[1])) = 2
    /\ new_results[1].score # new_results[2].score
    /\ new_results[1].mode # new_results[2].mode
    /\ Len(result.val) = 1
    /\ result.val[1].diff = Fin(1, 2)

\* the old records that have a record of their key in new_results, in order
RECURSIVE MatchedOlds(_)
MatchedOlds(olds) ==
    IF olds = <<>> THEN <<>>
    ELSE (IF MatchesOf(olds[1]) # {} THEN <<olds[1]>> ELSE <<>>) \o MatchedOlds(Tail(olds))

\* C2: the output holds, in the order of old_results, one Diff for each old
\* record whose key some record of new_results has, and nothing else; old
\* records of equal key each get their Diff, and the Diffs are never more
\* than the old records.
C2_OnePerMatchedOld ==
    pc = "done" /\ fs = None =>
        /\ Len(result.val) <= Len(old_results)
        /\ Len(result.val) = Len(MatchedOlds(old_results))
        /\ \A k \in 1..Len(result.val) :
              /\ result.val[k].name = MatchedOlds(old_results)[k].name
              /\ result.val[k].units = MatchedOlds(old_results)[k].units
              /\ result.val[k].old_score = MatchedOlds(old_results)[k].score

C2_Witness ==
    /\ pc = "done" /\ fs = None
    /\ Len(old_results) = 3 /\ Len(new_results) = 2
    /\ Matched = {1, 3}
    /\ MatchesOf(old_results[1]) = {2}
    /\ MatchesOf(old_results[3]) = {2}
    /\ old_results[1].score # old_results[3].score
    /\ Len(result.val) = 2

TablePrinted == \E i \in 1..Len(stdout) : stdout[i].kind = "table"
BothReadable == fs.old.readable /\ fs.new.readable
RunEnded == pc \in {"done", "exited"}

\* C7: a run prints the table exactly when both files can be read.  A file
\* that cannot be read ends the run with exit status 1 and one diagnostic
\* naming a file that could not be read, with no table printed; rows that do
\* not parse never end the run, which goes on to print the table of the
\* Diffs of the rows that did parse.
C7_TableIffReadable ==
    fs # None =>
        /\ TablePrinted => BothReadable
        /\ ~RunEnded => ENABLED NextRun
        /\ RunEnded => (TablePrinted <=> BothReadable)
        /\ BothReadable => pc # "exited" /\ stderr = <<>>
        /\ pc = "exited" =>
              /\ exit_code = Ok(1)
              /\ ~TablePrinted
              /\ \E w \in {"old", "new"} : stderr = <<Diagnostic(w)>> /\ ~fs[w].readable
        /\ pc = "done" =>
              /\ exit_code = Ok(0)
              /\ stdout[Len(stdout)] =
                    TableOut(compare_benchmark_results(parse_file(fs.old).val.results,
                                                       parse_file(fs.new).val.results))

C7_Witness ==
    /\ fs # None
    /\ pc = "done"
    /\ errors.old # <<>>
    /\ stdout[1] = Notice
    /\ TablePrinted
    /\ stdout[Len(stdout)].rows # <<>>

====
